---- MODULE Spec2Model ----
(***************************************************************************)
(* A model of the accumulator of sakridge/accumulator: src/accumulator.rs  *)
(* (add, delete, membership, non-membership, Shamir's trick) and           *)
(* src/proof/poke2.rs (the PoKE2 protocol).  The functions are pure; the   *)
(* state machine is a caller that draws the inputs of one call, records    *)
(* the call and what it returned, and returns to idle.  Two calls chain on *)
(* the value of the previous one: add after add, and a verification after  *)
(* the proof it verifies.                                                  *)
(*                                                                         *)
(* The group, the PoE protocol, the integer utilities and the hash are     *)
(* other files of the repository; they are modelled from the contracts the *)
(* specification gives for them (sections 4.1, 4.2, 4.3 and the glossary). *)
(***************************************************************************)
EXTENDS Integers, Sequences, FiniteSets, TLC

(***************************************************************************)
(* Bounds of the model.                                                    *)
(***************************************************************************)
\* Elements (set members) are drawn from 1..MaxElem.
MaxElem == 3
\* Longest list of elements or of (element, witness) pairs of one call.
MaxLen == 2
\* PoKE2 exponents are drawn from -MaxExp..MaxExp.
MaxExp == 27
\* hash_inputs returns a value of 0..HashRange-1.
HashRange == 16

(***************************************************************************)
(* group::dummy::DummyRSA: the units modulo Modulus under multiplication,  *)
(* with 2 the base element.                                                *)
(***************************************************************************)
Modulus == 7

RECURSIVE gcd_nat(_, _)
gcd_nat(x, y) == IF y = 0 THEN x ELSE gcd_nat(y, x % y)

Elems == {x \in 1..(Modulus - 1) : gcd_nat(x, Modulus) = 1}

base_elem == 2

op(a, b) == (a * b) % Modulus

RECURSIVE exp(_, _)
exp(a, n) ==
  IF n = 0 THEN 1
  ELSE LET h == exp(a, n \div 2)
           hh == op(h, h)
       IN IF n % 2 = 1 THEN op(hh, a) ELSE hh

inv(a) == CHOOSE b \in Elems : op(a, b) = 1

exp_signed(a, e) == IF e >= 0 THEN exp(a, e) ELSE inv(exp(a, -e))

(***************************************************************************)
(* The environment: which Bezout coefficients util::bezout returns (the    *)
(* extended-Euclid pair shifted bezoutShift times along the solution       *)
(* line), and which hash function hash_inputs is (hashSalt).  Both are     *)
(* fixed in the initial state.                                             *)
(***************************************************************************)
VARIABLES call, args, ret, bezoutShift, hashSalt

vars == <<call, args, ret, bezoutShift, hashSalt>>

BezoutShifts == {-1, 0, 1}
HashSalts == {0, 1}

(***************************************************************************)
(* util: bezout (a*x + b*y = gcd) and the Euclidean remainder.             *)
(***************************************************************************)
RECURSIVE ext_euclid(_, _)
ext_euclid(x, y) ==
  IF y = 0 THEN [a |-> 1, b |-> 0, gcd |-> x]
  ELSE LET r == ext_euclid(y, x % y)
       IN [a |-> r.b, b |-> r.a - (x \div y) * r.b, gcd |-> r.gcd]

bezout(x, y) ==
  LET e == ext_euclid(x, y)
  IN [a |-> e.a + bezoutShift * (y \div e.gcd),
      b |-> e.b - bezoutShift * (x \div e.gcd),
      gcd |-> e.gcd]

mod_euc_big(e, l) == e % l

div_floor(e, l) == e \div l

(***************************************************************************)
(* proof/poke2.rs                                                          *)
(***************************************************************************)
hash_prime(u, w, z) == 13

hash_inputs(u, w, z, l) ==
  ((u + hashSalt) * (w + 1) + (z + 2 * hashSalt) * (l + w)) % HashRange

\* prove_poke2 with q rounded towards zero instead of down.
prove_poke2_truncated_q(base, e, result) ==
  LET g == base_elem
      z == exp_signed(g, e)
      l == hash_prime(base, result, z)
      alpha == hash_inputs(base, result, z, l)
      q == IF e >= 0 THEN e \div l ELSE -((-e) \div l)
      r == mod_euc_big(e, l)
  IN [z |-> z, Q |-> exp_signed(op(base, exp(g, alpha)), q), r |-> r]

prove_poke2(base, e, result) ==
  LET g == base_elem
      z == exp_signed(g, e)
      l == hash_prime(base, result, z)
      alpha == hash_inputs(base, result, z, l)
      q == div_floor(e, l)
      r == mod_euc_big(e, l)
  IN [z |-> z, Q |-> exp_signed(op(base, exp(g, alpha)), q), r |-> r]

\* verify_poke2 without the remainder term (base * g^alpha)^r.
verify_poke2_no_remainder(base, result, proof) ==
  LET z == proof.z
      Q == proof.Q
      g == base_elem
      l == hash_prime(base, result, z)
      alpha == hash_inputs(base, result, z, l)
      lhs == exp(Q, l)
      rhs == op(result, exp(z, alpha))
  IN lhs = rhs

verify_poke2(base, result, proof) ==
  LET z == proof.z
      Q == proof.Q
      r == proof.r
      g == base_elem
      l == hash_prime(base, result, z)
      alpha == hash_inputs(base, result, z, l)
      lhs == op(exp(Q, l), exp(op(base, exp(g, alpha)), r))
      rhs == op(result, exp(z, alpha))
  IN lhs = rhs

(***************************************************************************)
(* proof/poe.rs: the proof of exponentiation of Wesolowski, with the same  *)
(* hash-to-prime primitive.                                                *)
(***************************************************************************)
poe_hash_prime(base, exponent, result) == hash_prime(base, result, result)

prove_poe(base, exponent, result) ==
  LET l == poe_hash_prime(base, exponent, result)
  IN [Q |-> exp(base, exponent \div l)]

verify_poe(base, exponent, result, proof) ==
  LET l == poe_hash_prime(base, exponent, result)
      r == exponent % l
  IN op(exp(proof.Q, l), exp(base, r)) = result

(***************************************************************************)
(* accumulator.rs                                                          *)
(***************************************************************************)
setup == base_elem

RECURSIVE product(_)
product(elems) ==
  IF Len(elems) = 0 THEN 1
  ELSE product(SubSeq(elems, 1, Len(elems) - 1)) * elems[Len(elems)]

\* add that leaves the last element out of the product.
add_without_last(acc, elems) ==
  LET x == IF Len(elems) = 0 THEN 1
           ELSE product(SubSeq(elems, 1, Len(elems) - 1))
      new_acc == exp(acc, x)
      poe_proof == prove_poe(acc, x, new_acc)
  IN [new_acc |-> new_acc, proof |-> poe_proof, proved |-> <<acc, x, new_acc>>]

add(acc, elems) ==
  LET x == product(elems)
      new_acc == exp(acc, x)
      poe_proof == prove_poe(acc, x, new_acc)
  IN [new_acc |-> new_acc, proof |-> poe_proof, proved |-> <<acc, x, new_acc>>]

\* Ok((new_acc, prove_poe(base, exponent, result))); proved records the triple
\* prove_poe was called on.
Ok(new_acc, base, exponent, result) ==
  [ok |-> TRUE, err |-> "", new_acc |-> new_acc,
   proof |-> prove_poe(base, exponent, result),
   proved |-> <<base, exponent, result>>]
Err(e) == [ok |-> FALSE, err |-> e]
None == [some |-> FALSE]
Some(v) == [some |-> TRUE, value |-> v]

\* shamir_trick with the two Bezout coefficients exchanged.
shamir_trick_swapped(xth_root, yth_root, x, y) ==
  IF exp(xth_root, x) # exp(yth_root, y) THEN None
  ELSE LET bz == bezout(x, y)
       IN IF bz.gcd # 1 THEN None
          ELSE Some(op(exp_signed(xth_root, bz.a), exp_signed(yth_root, bz.b)))

shamir_trick(xth_root, yth_root, x, y) ==
  IF exp(xth_root, x) # exp(yth_root, y) THEN None
  ELSE LET bz == bezout(x, y)
       IN IF bz.gcd # 1 THEN None
          ELSE Some(op(exp_signed(xth_root, bz.b), exp_signed(yth_root, bz.a)))

\* The loop of delete over the pairs after the first: i is the index of the
\* pair the loop is at.
RECURSIVE delete_loop(_, _, _, _, _)
delete_loop(acc, elem_witnesses, i, elem_aggregate, acc_next) ==
  IF i > Len(elem_witnesses)
  THEN Ok(acc_next, acc_next, elem_aggregate, acc)
  ELSE LET elem == elem_witnesses[i][1]
           witness == elem_witnesses[i][2]
       IN IF exp(witness, elem) # acc THEN Err("BadWitness")
          ELSE LET acc_next_option ==
                     shamir_trick(acc_next, witness, elem_aggregate, elem)
               IN IF ~acc_next_option.some THEN Err("InputsNotCoPrime")
                  ELSE delete_loop(acc, elem_witnesses, i + 1,
                                   elem_aggregate * elem, acc_next_option.value)

\* delete whose running accumulator starts from acc, not from the first
\* witness.
delete_from_acc(acc, elem_witnesses) ==
  IF Len(elem_witnesses) = 0
  THEN Ok(acc, acc, 0, acc)
  ELSE delete_loop(acc, elem_witnesses, 2, elem_witnesses[1][1], acc)

delete(acc, elem_witnesses) ==
  IF Len(elem_witnesses) = 0
  THEN Ok(acc, acc, 0, acc)
  ELSE delete_loop(acc, elem_witnesses, 2,
                   elem_witnesses[1][1], elem_witnesses[1][2])

prove_membership(acc, elem_witnesses) == delete(acc, elem_witnesses)

verify_membership(witness, elems, result, proof) ==
  LET e == product(elems)
  IN verify_poe(witness, e, result, proof)

\* prove_nonmembership with gv_inverse = g * v, the inverse forgotten.
prove_nonmembership_no_inverse(acc, acc_set, elems) ==
  LET x == product(elems)
      s == product(acc_set)
      bz == bezout(x, s)
  IN IF bz.gcd # 1 THEN Err("InputsNotCoPrime")
     ELSE LET g == base_elem
              d == exp_signed(g, bz.a)
              v == exp_signed(acc, bz.b)
              gv_inverse == op(g, v)
              poke2_proof == prove_poke2(acc, bz.b, v)
              poe_proof == prove_poe(d, x, gv_inverse)
          IN [ok |-> TRUE, err |-> "", d |-> d, v |-> v,
              gv_inverse |-> gv_inverse,
              poke2_proof |-> poke2_proof, poe_proof |-> poe_proof]

\* prove_nonmembership that tests the gcd against 0 instead of 1.
prove_nonmembership_gcd_zero(acc, acc_set, elems) ==
  LET x == product(elems)
      s == product(acc_set)
      bz == bezout(x, s)
  IN IF bz.gcd = 0 THEN Err("InputsNotCoPrime")
     ELSE LET g == base_elem
              d == exp_signed(g, bz.a)
              v == exp_signed(acc, bz.b)
              gv_inverse == op(g, inv(v))
              poke2_proof == prove_poke2(acc, bz.b, v)
              poe_proof == prove_poe(d, x, gv_inverse)
          IN [ok |-> TRUE, err |-> "", d |-> d, v |-> v,
              gv_inverse |-> gv_inverse,
              poke2_proof |-> poke2_proof, poe_proof |-> poe_proof]

prove_nonmembership(acc, acc_set, elems) ==
  LET x == product(elems)
      s == product(acc_set)
      bz == bezout(x, s)
  IN IF bz.gcd # 1 THEN Err("InputsNotCoPrime")
     ELSE LET g == base_elem
              d == exp_signed(g, bz.a)
              v == exp_signed(acc, bz.b)
              gv_inverse == op(g, inv(v))
              poke2_proof == prove_poke2(acc, bz.b, v)
              poe_proof == prove_poe(d, x, gv_inverse)
          IN [ok |-> TRUE, err |-> "", d |-> d, v |-> v,
              gv_inverse |-> gv_inverse,
              poke2_proof |-> poke2_proof, poe_proof |-> poe_proof]

verify_nonmembership(acc, elems, d, v, gv_inverse, poke2_proof, poe_proof) ==
  LET x == product(elems)
  IN verify_poke2(acc, v, poke2_proof) /\ verify_poe(d, x, gv_inverse, poe_proof)

(***************************************************************************)
(* The caller: the inputs it draws.                                        *)
(***************************************************************************)
SeqsUpTo(S, n) == UNION {[1..k -> S] : k \in 0..n}

Elements == 1..MaxElem
ElemLists == SeqsUpTo(Elements, MaxLen)
PairLists == SeqsUpTo(Elements \X Elems, MaxLen)
Products == {product(l) : l \in ElemLists}
Exponents == (-MaxExp)..MaxExp

Nothing == [none |-> TRUE]

Init ==
  /\ call = "idle"
  /\ args = Nothing
  /\ ret = Nothing
  /\ bezoutShift \in BezoutShifts
  /\ hashSalt \in HashSalts

\* add(acc, elems) on an accumulator value the caller holds.
Add ==
  /\ call = "idle"
  /\ \E acc \in Elems, elems \in ElemLists :
       /\ call' = "add"
       /\ args' = [acc0 |-> acc, added |-> elems, acc |-> acc, elems |-> elems]
       /\ ret' = add(acc, elems)
  /\ UNCHANGED <<bezoutShift, hashSalt>>

\* add(new_acc, elems) on the accumulator the previous add returned.
AddMore ==
  /\ call = "add"
  /\ \E elems \in ElemLists :
       /\ Len(args.added) + Len(elems) <= MaxLen + 1
       /\ call' = "add"
       /\ args' = [acc0 |-> args.acc0, added |-> args.added \o elems,
                   acc |-> ret.new_acc, elems |-> elems]
       /\ ret' = add(ret.new_acc, elems)
  /\ UNCHANGED <<bezoutShift, hashSalt>>

\* delete(acc, elem_witnesses), the witnesses any group elements.
Delete ==
  /\ call = "idle"
  /\ \E acc \in Elems, elem_witnesses \in PairLists :
       /\ call' = "delete"
       /\ args' = [acc |-> acc, elem_witnesses |-> elem_witnesses]
       /\ ret' = delete(acc, elem_witnesses)
  /\ UNCHANGED <<bezoutShift, hashSalt>>

\* shamir_trick(xth_root, yth_root, x, y), as delete calls it: x and y are
\* products of elements.
ShamirTrick ==
  /\ call = "idle"
  /\ \E xth_root \in Elems, yth_root \in Elems, x \in Products, y \in Products :
       /\ call' = "shamir_trick"
       /\ args' = [xth_root |-> xth_root, yth_root |-> yth_root, x |-> x, y |-> y]
       /\ ret' = shamir_trick(xth_root, yth_root, x, y)
  /\ UNCHANGED <<bezoutShift, hashSalt>>

\* prove_nonmembership(acc, acc_set, elems).
ProveNonmembership ==
  /\ call = "idle"
  /\ \E acc \in Elems, acc_set \in ElemLists, elems \in ElemLists :
       /\ call' = "prove_nonmembership"
       /\ args' = [acc |-> acc, acc_set |-> acc_set, elems |-> elems]
       /\ ret' = prove_nonmembership(acc, acc_set, elems)
  /\ UNCHANGED <<bezoutShift, hashSalt>>

\* verify_nonmembership on what the previous prove_nonmembership returned.
VerifyNonmembership ==
  /\ call = "prove_nonmembership"
  /\ ret.ok
  /\ call' = "verify_nonmembership"
  /\ args' = [acc |-> args.acc, acc_set |-> args.acc_set, elems |-> args.elems,
              d |-> ret.d, v |-> ret.v,
              gv_inverse |-> ret.gv_inverse, poke2_proof |-> ret.poke2_proof,
              poe_proof |-> ret.poe_proof, honest |-> TRUE]
  /\ ret' = [verified |->
               verify_nonmembership(args.acc, args.elems, ret.d, ret.v,
                                    ret.gv_inverse, ret.poke2_proof, ret.poe_proof)]
  /\ UNCHANGED <<bezoutShift, hashSalt>>

\* verify_nonmembership on a tuple a prover assembled itself from proofs of
\* true relations: v = acc^b with its PoKE2, gv_inverse = d^x with its PoE.
\* The exponent b is any of -MaxElem..MaxElem.
VerifyNonmembershipAssembled ==
  /\ call = "idle"
  /\ \E acc \in Elems, elems \in ElemLists, d \in Elems, b \in (-MaxElem)..MaxElem :
       LET x == product(elems)
           v == exp_signed(acc, b)
           gv_inverse == exp(d, x)
           poke2_proof == prove_poke2(acc, b, v)
           poe_proof == prove_poe(d, x, gv_inverse)
       IN /\ call' = "verify_nonmembership"
          /\ args' = [acc |-> acc, elems |-> elems, d |-> d, v |-> v,
                      gv_inverse |-> gv_inverse, poke2_proof |-> poke2_proof,
                      poe_proof |-> poe_proof, honest |-> FALSE]
          /\ ret' = [verified |->
                       verify_nonmembership(acc, elems, d, v, gv_inverse,
                                            poke2_proof, poe_proof)]
  /\ UNCHANGED <<bezoutShift, hashSalt>>

\* prove_poke2(base, e, result) on a valid triple: result = base^e.
ProvePoke2 ==
  /\ call = "idle"
  /\ \E base \in Elems, e \in Exponents :
       LET result == exp_signed(base, e)
       IN /\ call' = "prove_poke2"
          /\ args' = [base |-> base, exp |-> e, result |-> result]
          /\ ret' = prove_poke2(base, e, result)
  /\ UNCHANGED <<bezoutShift, hashSalt>>

\* verify_poke2(base, w, proof) on the proof the previous prove_poke2
\* returned, against any result value w.
VerifyPoke2 ==
  /\ call = "prove_poke2"
  /\ \E w \in Elems :
       /\ call' = "verify_poke2"
       /\ args' = [base |-> args.base, exp |-> args.exp, proved |-> args.result,
                   result |-> w, proof |-> ret]
       /\ ret' = [verified |-> verify_poke2(args.base, w, ret)]
  /\ UNCHANGED <<bezoutShift, hashSalt>>

\* The call is over.
Return ==
  /\ call # "idle"
  /\ call' = "idle"
  /\ args' = Nothing
  /\ ret' = Nothing
  /\ UNCHANGED <<bezoutShift, hashSalt>>

Next ==
  \/ Add
  \/ AddMore
  \/ Delete
  \/ ShamirTrick
  \/ ProveNonmembership
  \/ VerifyNonmembership
  \/ VerifyNonmembershipAssembled
  \/ ProvePoke2
  \/ VerifyPoke2
  \/ Return

Spec == Init /\ [][Next]_vars

(***************************************************************************)
(* Notions the properties are stated in, defined apart from the code's own *)
(* arithmetic.                                                             *)
(***************************************************************************)
\* x and y have no common divisor but 1.
CoPrime(x, y) == \A k \in 2..x : ~(x % k = 0 /\ y % k = 0)

PairwiseCoPrime(xs) ==
  \A i \in 1..Len(xs), j \in 1..Len(xs) : i # j => CoPrime(xs[i], xs[j])

ElementsOf(elem_witnesses) ==
  [i \in 1..Len(elem_witnesses) |-> elem_witnesses[i][1]]

\* Every reordering of a list.
Reorderings(xs) ==
  {[i \in 1..Len(xs) |-> xs[p[i]]] : p \in Permutations(1..Len(xs))}

\* The exponents s of an accumulator g^s over a set of at most MaxLen + 1
\* elements.
AccExponents == {product(l) : l \in SeqsUpTo(Elements, MaxLen + 1)}

\* acc = g^s, every deleted element divides s and comes with its witness
\* g^(s/x).
CorrectWitnesses(acc, elem_witnesses, s) ==
  /\ acc = exp(base_elem, s)
  /\ \A i \in 1..Len(elem_witnesses) :
       /\ s % elem_witnesses[i][1] = 0
       /\ elem_witnesses[i][2] = exp(base_elem, s \div elem_witnesses[i][1])

(***************************************************************************)
(* C1.  delete with an incorrect witness fails with BadWitness: whenever   *)
(* the pairs' elements are pairwise co-prime and some pair (x, w) has      *)
(* w^x # acc, delete returns Err(BadWitness), wherever the bad pair is.    *)
(* The code never checks the first pair.                                   *)
(***************************************************************************)
C1_BadWitnessRejected ==
  (/\ call = "delete"
   /\ Len(args.elem_witnesses) > 0
   /\ PairwiseCoPrime(ElementsOf(args.elem_witnesses))
   /\ \E i \in 1..Len(args.elem_witnesses) :
        exp(args.elem_witnesses[i][2], args.elem_witnesses[i][1]) # args.acc)
  => ret = Err("BadWitness")

(***************************************************************************)
(* C2.  delete with correct witnesses yields the accumulator over the      *)
(* remaining elements: for acc = g^s and pairwise co-prime x_1..x_n that   *)
(* divide s, with witnesses g^(s/x_i), delete returns Ok with              *)
(* new_acc = g^(s/(x_1*...*x_n)), the proof prove_poe(new_acc, x_1*...*x_n,*)
(* acc) of a true triple, and verify_membership accepts it.                *)
(***************************************************************************)
C2_DeleteCorrectWitnesses ==
  call = "delete" =>
    \A s \in AccExponents :
      (/\ Len(args.elem_witnesses) > 0
       /\ PairwiseCoPrime(ElementsOf(args.elem_witnesses))
       /\ CorrectWitnesses(args.acc, args.elem_witnesses, s))
      => LET xs == ElementsOf(args.elem_witnesses)
             x == product(xs)
         IN /\ ret.ok
            /\ ret.new_acc = exp(base_elem, s \div x)
            /\ ret.proved = <<ret.new_acc, x, args.acc>>
            /\ ret.proof = prove_poe(ret.new_acc, x, args.acc)
            /\ exp(ret.new_acc, x) = args.acc
            /\ verify_membership(ret.new_acc, xs, args.acc, ret.proof)

\* Two elements other than 1 were deleted with correct witnesses from an
\* accumulator that keeps a third.
C2_Witness ==
  /\ call = "delete"
  /\ Len(args.elem_witnesses) = 2
  /\ \A i \in 1..2 : args.elem_witnesses[i][1] > 1
  /\ PairwiseCoPrime(ElementsOf(args.elem_witnesses))
  /\ \E s \in AccExponents :
       /\ CorrectWitnesses(args.acc, args.elem_witnesses, s)
       /\ s > product(ElementsOf(args.elem_witnesses))
  /\ ret.ok
  /\ ret.new_acc # args.acc

(***************************************************************************)
(* C3.  delete(acc, []) returns Ok((acc, proof)) with the accumulator      *)
(* unchanged and a proof that verifies: the triple the proof was produced  *)
(* for is a true relation base^exponent = result, and                      *)
(* verify_membership(acc, [], acc, proof) is true.                         *)
(* The code produces the proof for (acc, 0, acc), and acc^0 is not acc.    *)
(***************************************************************************)
C3_EmptyDeleteProofVerifies ==
  (call = "delete" /\ Len(args.elem_witnesses) = 0)
  => /\ ret.ok
     /\ ret.new_acc = args.acc
     /\ exp(ret.proved[1], ret.proved[2]) = ret.proved[3]
     /\ verify_membership(args.acc, <<>>, args.acc, ret.proof)

(***************************************************************************)
(* C4.  Non-membership round trip: for acc = g^product(acc_set) and elems  *)
(* with product co-prime to product(acc_set), prove_nonmembership returns  *)
(* Ok((d, v, gv_inverse, poke2_proof, poe_proof)) with                     *)
(* d^product(elems) = gv_inverse = g * v^-1, and verify_nonmembership      *)
(* accepts the tuple, also when the Bezout coefficient b is negative.      *)
(***************************************************************************)
C4_NonmembershipRoundTrip ==
  /\ (/\ call = "prove_nonmembership"
      /\ args.acc = exp(base_elem, product(args.acc_set))
      /\ CoPrime(product(args.elems), product(args.acc_set)))
     => /\ ret.ok
        /\ exp(ret.d, product(args.elems)) = ret.gv_inverse
        /\ ret.gv_inverse = op(base_elem, inv(ret.v))
  /\ (/\ call = "verify_nonmembership"
      /\ args.honest
      /\ args.acc = exp(base_elem, product(args.acc_set)))
     => ret.verified

\* A proof whose Bezout coefficient b, the PoKE2 exponent, is negative was
\* verified, for elements other than 1.
C4_Witness ==
  /\ call = "verify_nonmembership"
  /\ args.honest
  /\ args.acc = exp(base_elem, product(args.acc_set))
  /\ product(args.elems) > 1
  /\ product(args.acc_set) > 1
  /\ bezout(product(args.elems), product(args.acc_set)).b < 0
  /\ ret.verified

(***************************************************************************)
(* C5.  prove_nonmembership returns Err(InputsNotCoPrime) exactly when     *)
(* gcd(product(elems), product(acc_set)) # 1, in particular whenever some  *)
(* element of elems is a member of acc_set, and Ok in every other case; it *)
(* never returns BadWitness and an error carries no proof.                 *)
(* As stated (any positive element): the element 1 is a member of          *)
(* acc_set = [1] and co-prime to everything.                               *)
(***************************************************************************)
C5_NotCoPrimeExactly ==
  call = "prove_nonmembership" =>
    LET coprime == CoPrime(product(args.elems), product(args.acc_set))
        member == \E i \in 1..Len(args.elems), j \in 1..Len(args.acc_set) :
                    args.elems[i] = args.acc_set[j]
    IN /\ (ret = Err("InputsNotCoPrime")) <=> ~coprime
       /\ member => ret = Err("InputsNotCoPrime")
       /\ coprime => ret.ok
       /\ ret.err # "BadWitness"
       /\ ~ret.ok => DOMAIN ret = {"ok", "err"}

(***************************************************************************)
(* C5, amended.  The same, the members being elements greater than 1.      *)
(***************************************************************************)
C5_NotCoPrimeExactlyAmended ==
  call = "prove_nonmembership" =>
    LET coprime == CoPrime(product(args.elems), product(args.acc_set))
        member == \E i \in 1..Len(args.elems), j \in 1..Len(args.acc_set) :
                    args.elems[i] = args.acc_set[j] /\ args.elems[i] > 1
    IN /\ (ret = Err("InputsNotCoPrime")) <=> ~coprime
       /\ member => ret = Err("InputsNotCoPrime")
       /\ coprime => ret.ok
       /\ ret.err # "BadWitness"
       /\ ~ret.ok => DOMAIN ret = {"ok", "err"}

\* An element that is a member of acc_set, among others that are not, was
\* refused.
C5_Witness ==
  /\ call = "prove_nonmembership"
  /\ Len(args.elems) = 2
  /\ \E j \in 1..Len(args.acc_set) : args.elems[1] = args.acc_set[j]
  /\ \A j \in 1..Len(args.acc_set) : args.elems[2] # args.acc_set[j]
  /\ args.elems[1] > 1
  /\ ret = Err("InputsNotCoPrime")

(***************************************************************************)
(* C6.  PoKE2 round trip: for every base and signed exponent e, with       *)
(* result = base^e, verify_poke2(base, result, prove_poke2(base, e,        *)
(* result)) is true; the proof's r satisfies e = q*l + r with 0 <= r < l   *)
(* for q = floor(e / l), negative when e is.                               *)
(***************************************************************************)
C6_Poke2RoundTrip ==
  /\ call = "prove_poke2" =>
       LET l == hash_prime(args.base, args.result, ret.z)
       IN /\ 0 <= ret.r /\ ret.r < l
          /\ \E q \in (-MaxExp)..MaxExp :
               /\ args.exp = q * l + ret.r
               /\ (args.exp < 0 => q < 0)
               /\ ret.Q = exp_signed(op(args.base,
                                        exp(base_elem,
                                            hash_inputs(args.base, args.result,
                                                        ret.z, l))), q)
  /\ (call = "verify_poke2" /\ args.result = args.proved) => ret.verified

\* A proof for a negative exponent below -l (q < -1, r > 0) was verified.
C6_Witness ==
  /\ call = "verify_poke2"
  /\ args.result = args.proved
  /\ args.exp < -hash_prime(args.base, args.result, args.proof.z)
  /\ args.proof.r > 0
  /\ args.base # 1
  /\ ret.verified

C8_AddComposes ==
  call = "add" =>
    LET x == product(args.elems)
    IN /\ ret.new_acc = exp(args.acc, x)
       /\ ret.proved = <<args.acc, x, ret.new_acc>>
       /\ ret.proof = prove_poe(args.acc, x, exp(args.acc, x))
       /\ ret.new_acc = exp(args.acc0, product(args.added))
       /\ \A l \in Reorderings(args.added) : add(args.acc0, l).new_acc = ret.new_acc
       /\ Len(args.elems) = 0 => ret.new_acc = args.acc

\* Elements B other than 1 were added after elements A other than 1, and the
\* accumulator changed both times.
C8_Witness ==
  /\ call = "add"
  /\ Len(args.elems) > 0
  /\ Len(args.added) > Len(args.elems)
  /\ \A i \in 1..Len(args.added) : args.added[i] > 1
  /\ args.acc # args.acc0
  /\ ret.new_acc # args.acc

(***************************************************************************)
(* C9.  shamir_trick(xth_root, yth_root, x, y) returns a result exactly    *)
(* when xth_root^x = yth_root^y and gcd(x, y) = 1; a result r is an        *)
(* (x*y)-th root of the common value, r^(x*y) = xth_root^x = yth_root^y,   *)
(* whichever Bezout coefficients are used and whatever their signs.        *)
(***************************************************************************)
C9_ShamirTrick ==
  call = "shamir_trick" =>
    /\ ret.some <=> (/\ exp(args.xth_root, args.x) = exp(args.yth_root, args.y)
                     /\ CoPrime(args.x, args.y))
    /\ ret.some => /\ exp(ret.value, args.x * args.y) = exp(args.xth_root, args.x)
                   /\ exp(ret.value, args.x * args.y) = exp(args.yth_root, args.y)

\* A root was returned for exponents other than 1, from two different roots,
\* with a negative coefficient a.
C9_Witness ==
  /\ call = "shamir_trick"
  /\ args.x > 1
  /\ args.y > 1
  /\ args.xth_root # args.yth_root
  /\ bezout(args.x, args.y).a < 0
  /\ ret.some
  /\ ret.value # 1

(***************************************************************************)
(* C10.  verify_nonmembership returns true only if gv_inverse = g * v^-1,  *)
(* that is only if d^product(elems) * v = g.                               *)
(* The code never relates gv_inverse to v: a gv_inverse = d^x with its PoE *)
(* and a v = acc^b with its PoKE2 are accepted.                            *)
(***************************************************************************)
C10_VerifiedOnlyIfBezout ==
  (call = "verify_nonmembership" /\ ret.verified)
  => /\ args.gv_inverse = op(base_elem, inv(args.v))
     /\ op(exp(args.d, product(args.elems)), args.v) = base_elem

====
